---------------------------- MODULE Spec2Model ----------------------------
(***************************************************************************)
(* Model of certbot-dns-schlundtech: the schema-less XML codec (_XML) and  *)
(* the SchlundTech gateway client (_SchlundtechGatewayClient) of           *)
(* src/certbot_dns_schlundtech/dns_schlundtech.py.                         *)
(*                                                                         *)
(* Python values are tagged records [k, v]:                                *)
(*   None  [k |-> "None", v |-> "None"]                                    *)
(*   str   [k |-> "str",  v |-> sequence of symbols]                       *)
(*   int   [k |-> "int",  v |-> integer]                                   *)
(*   list  [k |-> "list", v |-> sequence of values]                        *)
(*   dict  [k |-> "dict", v |-> sequence of [key, val], insertion order]   *)
(*   other [k |-> "obj",  v |-> "object"]   (a value of no handled type)   *)
(* A raised exception is [k |-> "raise", v |-> its class, msg |-> message]. *)
(* A str is a sequence of symbols; a symbol is one character or one run    *)
(* of characters that the strings of the model never split.                *)
(***************************************************************************)
EXTENDS Integers, Sequences, FiniteSets, TLC

VARIABLES
    domain,           \* argument domain
    validation_name,  \* argument validation_name
    validation,       \* argument validation
    stripped,         \* value returned by _strip_domain
    element,          \* Et.Element handed to unmarshal
    unmarshalled,     \* value returned by unmarshal / fromstring
    data,             \* dict handed to tostring
    document,         \* serialized document returned by tostring
    op,               \* "add" (add_txt_record) or "del" (del_txt_record)
    pc,               \* position of the running operation
    calls,            \* tasks sent to the gateway so far, in order
    info,             \* zone returned by _zone_info
    responses,        \* what each call got back, in order
    outcome           \* how the operation ended

vars == <<domain, validation_name, validation, stripped, element, unmarshalled,
          data, document, op, pc, calls, info, responses, outcome>>

\* Values of the variables an operation has not used or not yet set.
Idle == [k |-> "idle", v |-> "idle"]
NotRun == [k |-> "not run", v |-> "not run"]

-----------------------------------------------------------------------------
(* Bounds *)

MaxDomainLen == 2
MaxNameLen == 5
MaxChildren == 3
MaxInt == 12

-----------------------------------------------------------------------------
(* Python values *)

PyNone == [k |-> "None", v |-> "None"]
PyStr(s) == [k |-> "str", v |-> s]
PyInt(n) == [k |-> "int", v |-> n]
PyList(s) == [k |-> "list", v |-> s]
PyDict(s) == [k |-> "dict", v |-> s]
PyObj == [k |-> "obj", v |-> "object"]
Raise(name) == [k |-> "raise", v |-> name, msg |-> <<>>]

\* errors.PluginError(msg)
PluginError(msg) == [k |-> "raise", v |-> "PluginError", msg |-> msg]

IsRaise(x) == x.k = "raise"

\* One symbol as a str.
S(sym) == PyStr(<<sym>>)

\* A dict entry.
KV(key, val) == [key |-> key, val |-> val]

\* key in d, for a dict d.
HasKey(d, key) == \E i \in 1..Len(d.v) : d.v[i].key = key

\* d[key], for a dict d that has the key.
GetItem(d, key) == d.v[CHOOSE i \in 1..Len(d.v) : d.v[i].key = key].val

\* d[key] = val: replaces in place, a new key goes last.
SetItem(d, key, val) ==
    IF HasKey(d, key)
    THEN PyDict([i \in 1..Len(d.v) |->
                    IF d.v[i].key = key THEN KV(key, val) ELSE d.v[i]])
    ELSE PyDict(Append(d.v, KV(key, val)))

\* Whether sequence s ends with sequence suffix (str.endswith).
EndsWith(s, suffix) ==
    /\ Len(suffix) <= Len(s)
    /\ SubSeq(s, Len(s) - Len(suffix) + 1, Len(s)) = suffix

\* str.replace(old, ''): every non-overlapping occurrence of old, scanned
\* from the left, is removed. old is never empty here.
RECURSIVE RemoveAll(_, _)
RemoveAll(s, old) ==
    IF Len(s) < Len(old) THEN s
    ELSE IF SubSeq(s, 1, Len(old)) = old
         THEN RemoveAll(SubSeq(s, Len(old) + 1, Len(s)), old)
         ELSE <<Head(s)>> \o RemoveAll(Tail(s), old)

-----------------------------------------------------------------------------
(* xml.etree.ElementTree, as far as _XML uses it *)

\* Et.Element: e.tag, e.text (None or a str), the child elements in order.
Element(tag, text, children) ==
    [k |-> "elem", tag |-> tag, text |-> text, children |-> children]

AddChild(e, child) == [e EXCEPT !.children = Append(@, child)]

\* One token of a serialized document.
Tok(t, tag, s) == [t |-> t, tag |-> tag, s |-> s]

Bytes(tokens) == [k |-> "bytes", v |-> tokens]

\* Et.tostring writes an element without text and without children in the
\* short form <tag />, whether its text is None or ''.
RECURSIVE Serialize(_), SerializeAll(_, _)
Serialize(e) ==
    LET txt == IF e.text = PyNone THEN <<>> ELSE e.text.v
    IN  IF Len(txt) = 0 /\ Len(e.children) = 0
        THEN <<Tok("empty", e.tag, <<>>)>>
        ELSE <<Tok("start", e.tag, <<>>)>>
             \o (IF Len(txt) > 0 THEN <<Tok("text", "", txt)>> ELSE <<>>)
             \o SerializeAll(e.children, 1)
             \o <<Tok("end", e.tag, <<>>)>>
SerializeAll(children, i) ==
    IF i > Len(children) THEN <<>>
    ELSE Serialize(children[i]) \o SerializeAll(children, i + 1)

\* Et.fromstring: character data before the first child is the element's
\* text, character data after a child is that child's tail (which _XML never
\* reads); an element without character data has text None.
\* stack holds the open elements, innermost last, below them a holder for
\* the root.
RECURSIVE ParseTokens(_, _, _)
ParseTokens(tokens, i, stack) ==
    LET n == Len(stack)
        top == stack[n]
        below == SubSeq(stack, 1, n - 1)
    IN  IF i > Len(tokens)
        THEN IF n = 1 /\ Len(top.children) = 1
             THEN top.children[1]
             ELSE Raise("ParseError")
        ELSE LET tok == tokens[i]
             IN  CASE tok.t = "start" ->
                        ParseTokens(tokens, i + 1,
                            Append(stack, Element(tok.tag, PyNone, <<>>)))
                   [] tok.t = "empty" ->
                        ParseTokens(tokens, i + 1,
                            Append(below,
                                AddChild(top, Element(tok.tag, PyNone, <<>>))))
                   [] tok.t = "text" ->
                        IF n = 1 THEN Raise("ParseError")
                        ELSE IF Len(top.children) > 0
                        THEN ParseTokens(tokens, i + 1, stack)
                        ELSE ParseTokens(tokens, i + 1,
                                Append(below,
                                    [top EXCEPT !.text =
                                        IF @ = PyNone THEN PyStr(tok.s)
                                        ELSE PyStr(@.v \o tok.s)]))
                   [] tok.t = "end" ->
                        IF n = 1 \/ top.tag # tok.tag THEN Raise("ParseError")
                        ELSE ParseTokens(tokens, i + 1,
                                Append(SubSeq(stack, 1, n - 2),
                                       AddChild(stack[n - 1], top)))
                   [] OTHER -> Raise("ParseError")

Parse(tokens) == ParseTokens(tokens, 1, <<Element("", PyNone, <<>>)>>)

-----------------------------------------------------------------------------
(* _XML *)

Digits == <<"0", "1", "2", "3", "4", "5", "6", "7", "8", "9">>

\* str(n) for an int n.
RECURSIVE NatToStr(_)
NatToStr(n) ==
    IF n < 10 THEN <<Digits[n + 1]>>
    ELSE NatToStr(n \div 10) \o <<Digits[(n % 10) + 1]>>

IntToStr(n) == IF n < 0 THEN <<"-">> \o NatToStr(-n) ELSE NatToStr(n)

\* str(value) for a str or an int.
Str(value) == IF value.k = "int" THEN IntToStr(value.v) ELSE value.v

\* _XML._marshal_value and _XML.marshal. Both return the element, or the
\* exception raised on the way.
RECURSIVE _marshal_value(_, _, _), MarshalItems(_, _, _, _),
          MarshalEntries(_, _, _), marshal(_, _)
_marshal_value(e, tag, value) ==
    CASE value.k = "None" -> e
      [] value.k \in {"str", "int"} ->
            AddChild(e, Element(tag, PyStr(Str(value)), <<>>))
      [] value.k = "list" -> MarshalItems(e, tag, value.v, 1)
      [] value.k = "dict" ->
            LET c == marshal(tag, value)
            IN  IF IsRaise(c) THEN c ELSE AddChild(e, c)
      [] OTHER -> Raise("NotImplementedError")
MarshalItems(e, tag, items, i) ==
    IF IsRaise(e) \/ i > Len(items) THEN e
    ELSE MarshalItems(_marshal_value(e, tag, items[i]), tag, items, i + 1)
MarshalEntries(e, entries, i) ==
    IF IsRaise(e) \/ i > Len(entries) THEN e
    ELSE MarshalEntries(_marshal_value(e, entries[i].key, entries[i].val),
                        entries, i + 1)
marshal(tag, d) == MarshalEntries(Element(tag, PyNone, <<>>), d.v, 1)

\* A repeated tag replaces the earlier value instead of collecting a list.
CollapseOverwrite(result, name, value) == SetItem(result, name, value)

\* The body of the loop of _XML.unmarshal: one child's value goes into the
\* result under the child's tag.
Collapse(result, name, value) ==
    IF HasKey(result, name)
    THEN IF GetItem(result, name).k = "list"
         THEN SetItem(result, name,
                      PyList(Append(GetItem(result, name).v, value)))
         ELSE SetItem(result, name, PyList(<<GetItem(result, name), value>>))
    ELSE SetItem(result, name, value)

RECURSIVE unmarshal(_), UnmarshalChildren(_, _, _)
unmarshal(e) ==
    IF e.text # PyNone THEN e.text
    ELSE IF Len(e.children) = 0 THEN PyNone
    ELSE UnmarshalChildren(e.children, 1, PyDict(<<>>))
UnmarshalChildren(children, i, result) ==
    IF i > Len(children) THEN result
    ELSE UnmarshalChildren(children, i + 1,
            Collapse(result, children[i].tag, unmarshal(children[i])))

\* _XML.tostring: the document, or the exception marshal raised.
tostring(tag, obj) ==
    LET e == marshal(tag, obj)
    IN  IF IsRaise(e) THEN e ELSE Bytes(Serialize(e))

\* _XML.fromstring: the value, or the exception the parser raised.
fromstring(body) ==
    LET e == Parse(body.v)
    IN  IF IsRaise(e) THEN e ELSE unmarshal(e)

-----------------------------------------------------------------------------
(* _SchlundtechGatewayClient._strip_domain *)

_strip_domain(d, name) ==
    IF EndsWith(name, d)
    THEN RemoveAll(name, <<".">> \o d)
    ELSE name

-----------------------------------------------------------------------------
(* Python expressions the client uses *)

\* obj[key] with a str key: only a dict can be subscripted this way.
Subscript(obj, key) ==
    IF IsRaise(obj) THEN obj
    ELSE IF obj.k = "dict"
         THEN IF HasKey(obj, key) THEN GetItem(obj, key) ELSE Raise("KeyError")
         ELSE Raise("TypeError")

\* bool(x)
Truthy(x) ==
    CASE x.k = "None" -> FALSE
      [] x.k = "int" -> x.v # 0
      [] x.k \in {"str", "list", "dict"} -> Len(x.v) > 0
      [] OTHER -> TRUE

\* Whether sub occurs in s as a contiguous run.
Contains(s, sub) ==
    \E i \in 0..(Len(s) - Len(sub)) : SubSeq(s, i + 1, i + Len(sub)) = sub

\* key in obj, for a str key and a dict, a str or a list; on any other
\* object Python raises TypeError.
In(key, obj) ==
    CASE obj.k = "dict" -> HasKey(obj, key)
      [] obj.k = "str" -> Contains(obj.v, <<key>>)
      [] obj.k = "list" -> \E i \in 1..Len(obj.v) : obj.v[i] = S(key)

-----------------------------------------------------------------------------
(* _SchlundtechGatewayClient *)

GATEWAY_URL == "https://gateway.schlundtech.de"

\* Authenticator.ttl
ttl == 60

Success == [k |-> "success", v |-> "success"]

\* _auth, with the credentials the client was constructed with.
_auth ==
    PyDict(<<KV("user", S("54321")), KV("password", S("PASSWORD")),
             KV("context", S("10"))>>)

\* The request _call builds around a task.
Request(task) ==
    PyDict(<<KV("auth", _auth), KV("language", S("en")), KV("task", task)>>)

\* What _call does before urlopen answers: the task as sent, or the
\* exception tostring raised (nothing is sent then).
Prepared(task) ==
    IF IsRaise(task) THEN task
    ELSE LET body == tostring("request", Request(task))
         IN  IF IsRaise(body) THEN body ELSE task

\* What a call got back: the exception of urlopen, the exception of the
\* parser, or the unmarshalled response.
Received(reply) == IF reply.k = "bytes" THEN fromstring(reply) ELSE reply

\* _call from the answer of urlopen on: the result, or the exception raised.
_call(reply) ==
    CASE reply.k = "HTTPError" ->
            PluginError(<<"Communication error while calling ", GATEWAY_URL,
                          "\nResponse: ", reply.v>>)
      [] reply.k = "URLError" ->
            PluginError(<<"Communication error while calling ", GATEWAY_URL,
                          "\nReason: ", reply.v>>)
      [] OTHER ->
            LET response == fromstring(reply)
                result == Subscript(response, "result")
            IN  IF IsRaise(response) THEN response
                ELSE IF response = PyNone
                THEN PluginError(<<"Unexpected response received from ",
                                   GATEWAY_URL>>)
                ELSE IF IsRaise(result) THEN result
                ELSE IF result # PyNone THEN result
                ELSE PluginError(<<"Unexpected response received from ",
                                   GATEWAY_URL, "\n", "repr(response)">>)

\* The task of _zone_info.
ZoneQueryTask(d) ==
    PyDict(<<KV("code", S("0205")),
             KV("zone", PyDict(<<KV("name", PyStr(d))>>))>>)

\* The zone is handed out whatever the status says.
_zone_info_unchecked(d, result) ==
    IF IsRaise(result) THEN result
    ELSE Subscript(Subscript(result, "data"), "zone")

\* _zone_info from the return of _call on: the zone, or the exception.
_zone_info(d, result) ==
    IF IsRaise(result) THEN result
    ELSE LET type == Subscript(Subscript(result, "status"), "type")
         IN  IF ~Truthy(result)
             THEN PluginError(<<"Unable to find a SchlundTech zone for ">> \o d)
             ELSE IF IsRaise(type) THEN type
             ELSE IF type = S("success")
             THEN Subscript(Subscript(result, "data"), "zone")
             ELSE PluginError(<<"Unable to find a SchlundTech zone for ">> \o d)

\* info after _current_value: a single rr has become a one-element list.
NormalizeRr(zone) ==
    IF zone.k = "dict" /\ HasKey(zone, "rr") /\ GetItem(zone, "rr").k # "list"
    THEN SetItem(zone, "rr", PyList(<<GetItem(zone, "rr")>>))
    ELSE zone

\* The loop of _current_value from record i on.
RECURSIVE ScanRr(_, _, _, _)
ScanRr(rrs, i, prefix, value) ==
    IF i > Len(rrs) THEN PyNone
    ELSE LET n == Subscript(rrs[i], "name")
             v == Subscript(rrs[i], "value")
         IN  IF IsRaise(n) THEN n
             ELSE IF n # prefix THEN ScanRr(rrs, i + 1, prefix, value)
             ELSE IF IsRaise(v) THEN v
             ELSE IF v # value THEN v
             ELSE ScanRr(rrs, i + 1, prefix, value)

\* Only the first record is looked at.
_current_value_first_only(zone, d, name, value) ==
    LET rrs == GetItem(NormalizeRr(zone), "rr").v
    IN  IF zone.k \notin {"dict", "str", "list"} THEN Raise("TypeError")
        ELSE IF ~In("rr", zone) THEN PyNone
        ELSE IF zone.k # "dict" THEN Raise("TypeError")
        ELSE ScanRr(SubSeq(rrs, 1, 1), 1, PyStr(_strip_domain(d, name)),
                    PyStr(value))

\* _current_value
_current_value(zone, d, name, value) ==
    LET rrs == GetItem(NormalizeRr(zone), "rr").v
    IN  IF zone.k \notin {"dict", "str", "list"} THEN Raise("TypeError")
        ELSE IF ~In("rr", zone) THEN PyNone
        ELSE IF zone.k # "dict" THEN Raise("TypeError")
        ELSE ScanRr(rrs, 1, PyStr(_strip_domain(d, name)), PyStr(value))

\* A dict literal: the first exception among the values, or the dict.
DictOf(entries) ==
    IF \E i \in 1..Len(entries) : IsRaise(entries[i].val)
    THEN entries[CHOOSE i \in 1..Len(entries) :
                    /\ IsRaise(entries[i].val)
                    /\ \A j \in 1..(i - 1) : ~IsRaise(entries[j].val)].val
    ELSE PyDict(entries)

\* The record of rr_add and rr_rem.
TxtRecord(d, name, value) ==
    PyDict(<<KV("name", PyStr(_strip_domain(d, name))), KV("type", S("TXT")),
             KV("value", PyStr(value)), KV("ttl", PyInt(ttl))>>)

\* The update task of add_txt_record.
AddTask(d, name, value, zone) ==
    DictOf(<<
        KV("code", S("0202001")),
        KV("zone", DictOf(<<KV("name", PyStr(d)),
                            KV("system_ns", Subscript(zone, "system_ns"))>>)),
        KV("default", DictOf(<<KV("rr_add", TxtRecord(d, name, value)),
                               KV("soa", Subscript(zone, "soa"))>>))>>)

\* The update task of del_txt_record.
DelTask(d, name, value, zone) ==
    DictOf(<<
        KV("code", S("0202001")),
        KV("zone", DictOf(<<KV("name", PyStr(d)),
                            KV("system_ns", Subscript(zone, "system_ns"))>>)),
        KV("default", DictOf(<<KV("rr_rem", TxtRecord(d, name, value))>>))>>)

\* add_txt_record from the return of _zone_info on, up to its second _call:
\* the exception raised, Success, or the update task it sends.
AddStep(d, name, value, zone) ==
    IF IsRaise(zone) THEN zone
    ELSE LET current_value == _current_value(zone, d, name, value)
         IN  IF IsRaise(current_value) THEN current_value
             ELSE IF current_value # PyNone /\ current_value # PyStr(value)
             THEN PluginError(<<"TXT record ">> \o name \o <<" for ">> \o d
                              \o <<" already exists with different value">>)
             ELSE IF current_value = PyStr(value) THEN Success
             ELSE Prepared(AddTask(d, name, value, NormalizeRr(zone)))

\* del_txt_record from the return of _zone_info on, up to its second _call.
DelStep(d, name, value, zone) ==
    IF IsRaise(zone) THEN zone
    ELSE Prepared(DelTask(d, name, value, zone))

\* add_txt_record and del_txt_record from the return of their second _call
\* on; verb is 'add' or 'remove'. _call never returns None, so the test
\* 'result is None' is never true.
UpdateOutcome(verb, d, name, result) ==
    IF IsRaise(result) THEN result
    ELSE LET status == Subscript(result, "status")
             type == Subscript(status, "type")
             text == Subscript(status, "text")
             head == <<"Unable to " \o verb \o " TXT record for ">> \o d
                     \o <<": ">> \o name
         IN  IF IsRaise(type) THEN type
             ELSE IF type = S("success") THEN Success
             ELSE IF ~HasKey(status, "text") THEN PluginError(head)
             ELSE IF text.k = "str" THEN PluginError(head \o <<"\n">> \o text.v)
             ELSE Raise("TypeError")

-----------------------------------------------------------------------------
(* Specification of _strip_domain over bounded strings *)

Alphabet == {"a", "b", "."}

RECURSIVE StrsOfLen(_)
StrsOfLen(n) ==
    IF n = 0 THEN { <<>> }
    ELSE { Append(s, c) : s \in StrsOfLen(n - 1), c \in Alphabet }

Strs(n) == UNION { StrsOfLen(i) : i \in 0..n }

\* Names of labels separated by single dots.
DnsNames(n) ==
    { s \in Strs(n) :
        /\ Len(s) > 0 /\ s[1] # "." /\ s[Len(s)] # "."
        /\ \A i \in 1..(Len(s) - 1) : ~(s[i] = "." /\ s[i + 1] = ".") }

InitStrip ==
    /\ domain \in DnsNames(MaxDomainLen)
    /\ validation_name \in DnsNames(MaxNameLen)
    /\ validation = <<>>
    /\ stripped = NotRun
    /\ element = Idle /\ unmarshalled = Idle /\ data = Idle /\ document = Idle
    /\ op = "idle" /\ pc = "idle" /\ calls = <<>> /\ info = Idle
    /\ responses = <<>> /\ outcome = Idle

StripDomainCall ==
    /\ stripped = NotRun
    /\ stripped' = PyStr(_strip_domain(domain, validation_name))
    /\ UNCHANGED <<domain, validation_name, validation, element, unmarshalled,
                   data, document, op, pc, calls, info, responses, outcome>>

NextStrip == StripDomainCall

SpecStrip == InitStrip /\ [][NextStrip]_vars

\* C5: stripDomain(domain, fqdn) is the portion of fqdn before the trailing
\* "." + domain when fqdn ends with "." + domain (only that suffix is
\* removed), and fqdn unchanged in every other case.
StripDomainRemovesOnlySuffix ==
    stripped # NotRun =>
        stripped.v = IF EndsWith(validation_name, <<".">> \o domain)
                     THEN SubSeq(validation_name, 1,
                                 Len(validation_name) - Len(domain) - 1)
                     ELSE validation_name

-----------------------------------------------------------------------------
(* Specification of the codec over bounded documents and bounded dicts *)

Tags == {"a", "b"}

\* e.text of a parsed element: None, white space, or other characters.
Texts == {PyNone, S(" "), S("t")}

SeqsUpTo(set, n) == UNION { [1..i -> set] : i \in 0..n }

Leaves == { Element(t, x, <<>>) : t \in Tags, x \in Texts }

Inner ==
    { Element(t, x, cs) :
        t \in Tags, x \in Texts, cs \in SeqsUpTo(Leaves, MaxChildren) }

\* Documents one level deeper: a root around one element, and a root around
\* two elements of the same tag, the second one with a child of its own.
Nested ==
    { Element("r", PyNone, <<e>>) : e \in Inner }
    \cup { Element("r", PyNone,
                   <<e, Element(e.tag, PyNone, <<Element("a", S("t"), <<>>)>>)>>) :
             e \in Inner }

Trees == Inner \cup Nested

Scalars ==
    {PyStr(<<>>), S("t"), S(" "), PyStr(<<"t", "&">>)}
    \cup { PyInt(n) : n \in (-MaxInt)..MaxInt }

SomeValues == {PyNone, S("t"), PyInt(MaxInt), PyStr(<<>>)}

FieldValues ==
    Scalars
    \cup {PyNone, PyObj, PyList(<<>>)}
    \cup { PyList(<<x, y>>) : x, y \in SomeValues \cup {PyObj} }
    \cup { PyDict(<<KV("b", x)>>) : x \in SomeValues \cup {PyObj} }

DataInputs ==
    { PyDict(<<KV("a", v)>>) : v \in FieldValues }
    \cup { PyDict(<<KV("a", v), KV("b", w)>>) :
             v \in FieldValues, w \in SomeValues }

InitXml ==
    /\ \/ /\ data = Idle
          /\ \E t \in Trees : document = Bytes(Serialize(t))
       \/ /\ data \in DataInputs
          /\ document = NotRun
    /\ element = NotRun /\ unmarshalled = NotRun
    /\ domain = <<>> /\ validation_name = <<>> /\ validation = <<>>
    /\ stripped = Idle
    /\ op = "idle" /\ pc = "idle" /\ calls = <<>> /\ info = Idle
    /\ responses = <<>> /\ outcome = Idle

\* tostring('x', data)
TostringCall ==
    /\ data # Idle /\ document = NotRun
    /\ document' = tostring("x", data)
    /\ UNCHANGED <<domain, validation_name, validation, stripped, element,
                   unmarshalled, data, op, pc, calls, info, responses, outcome>>

\* fromstring(document); element is what Et.fromstring hands to unmarshal.
FromstringCall ==
    /\ document.k = "bytes" /\ unmarshalled = NotRun
    /\ element' = Parse(document.v)
    /\ unmarshalled' = fromstring(document)
    /\ UNCHANGED <<domain, validation_name, validation, stripped, data,
                   document, op, pc, calls, info, responses, outcome>>

NextXml == TostringCall \/ FromstringCall

SpecXml == InitXml /\ [][NextXml]_vars

\* The values of the children of e whose tag is tag, in document order.
ChildValues(e, tag) ==
    LET HasTag(c) == c.tag = tag
        same == SelectSeq(e.children, HasTag)
    IN  [i \in 1..Len(same) |-> unmarshal(same[i])]

ChildTags(e) == { e.children[i].tag : i \in 1..Len(e.children) }

\* fromstring has returned the value of a parsed element.
Unmarshalled == unmarshalled # NotRun /\ element.k = "elem"

\* C6: for an element with children and no text, unmarshal returns a Map
\* whose keys are the children's tags; a tag that occurs once maps to the
\* bare value of that child, a tag that occurs n >= 2 times maps to the List
\* of the n children's values in document order, whatever lies between them.
CollapsingRule ==
    (Unmarshalled /\ element.text = PyNone /\ Len(element.children) > 0) =>
        /\ unmarshalled.k = "dict"
        /\ \A i \in 1..Len(unmarshalled.v) :
              unmarshalled.v[i].key \in ChildTags(element)
        /\ \A tag \in ChildTags(element) :
              LET occ == ChildValues(element, tag)
              IN  /\ HasKey(unmarshalled, tag)
                  /\ GetItem(unmarshalled, tag) =
                        IF Len(occ) = 1 THEN occ[1] ELSE PyList(occ)

\* C6 witness: tag a occurs twice around one b; a is a two-element List in
\* document order and b a bare value.
CollapsingRuleReached ==
    /\ Unmarshalled /\ element.text = PyNone
    /\ Len(element.children) = 3
    /\ element.children[1].tag = "a"
    /\ element.children[2].tag = "b"
    /\ element.children[3].tag = "a"
    /\ element.children[1].text = S("t")
    /\ element.children[3].text = S(" ")
    /\ element.children[2].text = S("t")
    /\ GetItem(unmarshalled, "a") = PyList(<<S("t"), S(" ")>>)
    /\ GetItem(unmarshalled, "b") = S("t")

\* A Value of the data model: a non-empty Scalar, a List of at least one
\* Value, or a Map of at least one entry, each entry a Value.
RECURSIVE IsValue(_)
IsValue(x) ==
    CASE x.k = "str" -> Len(x.v) > 0
      [] x.k = "list" -> Len(x.v) > 0 /\ \A i \in 1..Len(x.v) : IsValue(x.v[i])
      [] x.k = "dict" ->
            Len(x.v) > 0 /\ \A i \in 1..Len(x.v) : IsValue(x.v[i].val)
      [] OTHER -> FALSE

\* C7: an empty child element leaves no entry in its parent's Map (no null
\* under a key or inside a List), so unmarshal produces either no value or a
\* Value.
NoNullInsideValue ==
    Unmarshalled => (unmarshalled = PyNone \/ IsValue(unmarshalled))

\* C8: for a str or int v, fromstring(tostring('x', {'a': v})) is a Map
\* whose field a is str(v).
ScalarRoundTrip ==
    (/\ unmarshalled # NotRun
     /\ data.k = "dict" /\ Len(data.v) = 1
     /\ data.v[1].key = "a" /\ data.v[1].val.k \in {"str", "int"}) =>
        /\ unmarshalled.k = "dict"
        /\ HasKey(unmarshalled, "a")
        /\ GetItem(unmarshalled, "a") = PyStr(Str(data.v[1].val))

\* C10: unmarshal returns a Scalar only for an element with non-empty text
\* and no children, and a Map for every element that has a child, with or
\* without text of its own.
ScalarOnlyWithoutChildren ==
    Unmarshalled =>
        /\ unmarshalled.k = "str" =>
              /\ element.text # PyNone
              /\ Len(element.text.v) > 0
              /\ Len(element.children) = 0
        /\ Len(element.children) > 0 => unmarshalled.k = "dict"

-----------------------------------------------------------------------------
(* Specification of add_txt_record and del_txt_record against the gateway *)

MaxRr == 2

Domain == <<"example", ".", "com">>

Names ==
    { <<"_acme-challenge", ".", "example", ".", "com">>,
      <<"www", ".", "example", ".", "com">> }

Token == <<"TOKEN">>

\* Elements of the gateway's documents.
E(tag, children) == Element(tag, PyNone, children)
T(tag, text) == Element(tag, PyStr(text), <<>>)
Empty(tag) == Element(tag, PyNone, <<>>)

\* <status>: its type, and a text that is left out, empty, or given.
StatusTexts == {"absent", "empty", "Quota exceeded"}

StatusElem(type, text) ==
    E("status",
      <<T("type", <<type>>)>>
      \o CASE text = "absent" -> <<>>
           [] text = "empty" -> <<Empty("text")>>
           [] OTHER -> <<T("text", <<text>>)>>)

\* <rr>: the records of the zone; the name of a record at the apex is empty.
RrNames == { <<"_acme-challenge">>, <<"www">>, <<>> }
RrValues == { <<"TOKEN">>, <<"OTHER">> }

RrElem(name, value) ==
    E("rr", << IF name = <<>> THEN Empty("name") ELSE T("name", name),
               T("type", <<"TXT">>), T("value", value), T("ttl", <<"60">>) >>)

RrElems == { RrElem(n, v) : n \in RrNames, v \in RrValues }

SoaElem == E("soa", <<T("refresh", <<"43200">>), T("email", <<"hostmaster">>)>>)

ZoneElem(rrs) ==
    E("zone", <<T("name", Domain), T("system_ns", <<"a.ns.de">>), SoaElem>>
              \o rrs)

ResultElem(children) == E("response", <<E("result", children)>>)

ZoneDocs ==
    { ResultElem(<<StatusElem(type, "absent"), E("data", <<ZoneElem(rrs)>>)>>) :
        type \in {"success", "error"}, rrs \in SeqsUpTo(RrElems, MaxRr) }

UpdateDocs ==
    { ResultElem(<<StatusElem(type, text)>>) :
        type \in {"success", "error"}, text \in StatusTexts }

\* Documents that are not what the protocol describes.
OddDocs ==
    { Empty("response"),
      T("response", <<"garbage">>),
      E("response", <<T("foo", <<"bar">>)>>),
      E("response", <<Empty("result")>>),
      Element("response", S(" "), <<E("result", <<StatusElem("success", "absent")>>)>>),
      ResultElem(<<T("foo", <<"bar">>)>>),
      ResultElem(<<StatusElem("success", "absent")>>),
      ResultElem(<<StatusElem("success", "absent"), E("data", <<Empty("zone")>>)>>),
      ResultElem(<<StatusElem("success", "absent"),
                   E("data", <<E("zone", <<T("name", Domain)>>)>>)>>),
      ResultElem(<<StatusElem("error", "Quota exceeded"),
                   E("data", <<ZoneElem(<<>>)>>)>>) }

\* What urlopen can answer: an HTTP error, no connection, a body that is
\* not XML, or a document.
TransportReplies ==
    { [k |-> "HTTPError", v |-> "503 Service Unavailable"],
      [k |-> "URLError", v |-> "Connection refused"],
      Bytes(<<Tok("text", "", <<"garbage">>)>>) }

ZoneReplies ==
    TransportReplies \cup { Bytes(Serialize(e)) : e \in ZoneDocs \cup OddDocs }

UpdateReplies ==
    TransportReplies \cup { Bytes(Serialize(e)) : e \in UpdateDocs \cup OddDocs }

Init ==
    /\ domain = Domain
    /\ validation_name \in Names
    /\ validation = Token
    /\ op = "none" /\ pc = "start"
    /\ calls = <<>> /\ responses = <<>>
    /\ info = NotRun /\ outcome = NotRun
    /\ stripped = Idle
    /\ element = Idle /\ unmarshalled = Idle /\ data = Idle /\ document = Idle

Untouched == <<domain, validation_name, validation, stripped, element,
               unmarshalled, data, document>>

\* add_txt_record up to the urlopen of _zone_info.
add_txt_record ==
    /\ pc = "start"
    /\ op' = "add"
    /\ calls' = <<Prepared(ZoneQueryTask(domain))>>
    /\ pc' = "zone sent"
    /\ UNCHANGED <<info, responses, outcome>>
    /\ UNCHANGED Untouched

\* del_txt_record up to the urlopen of _zone_info.
del_txt_record ==
    /\ pc = "start"
    /\ op' = "del"
    /\ calls' = <<Prepared(ZoneQueryTask(domain))>>
    /\ pc' = "zone sent"
    /\ UNCHANGED <<info, responses, outcome>>
    /\ UNCHANGED Untouched

\* The state after the step of an operation that follows the zone reply.
AfterZone(zone, step) ==
    /\ info' = IF IsRaise(zone) THEN info ELSE zone
    /\ IF step.k = "dict"
       THEN /\ calls' = Append(calls, step)
            /\ pc' = "update sent"
            /\ outcome' = outcome
       ELSE /\ calls' = calls
            /\ pc' = "done"
            /\ outcome' = step

\* add_txt_record from the answer to the zone query up to the urlopen of the
\* update, or to its end.
AddZoneReply ==
    /\ op = "add" /\ pc = "zone sent"
    /\ \E reply \in ZoneReplies :
          LET zone == _zone_info(domain, _call(reply))
          IN  /\ responses' = Append(responses, Received(reply))
              /\ AfterZone(NormalizeRr(zone),
                           AddStep(domain, validation_name, validation, zone))
    /\ UNCHANGED op
    /\ UNCHANGED Untouched

\* del_txt_record from the answer to the zone query up to the urlopen of the
\* update, or to its end.
DelZoneReply ==
    /\ op = "del" /\ pc = "zone sent"
    /\ \E reply \in ZoneReplies :
          LET zone == _zone_info(domain, _call(reply))
          IN  /\ responses' = Append(responses, Received(reply))
              /\ AfterZone(zone,
                           DelStep(domain, validation_name, validation, zone))
    /\ UNCHANGED op
    /\ UNCHANGED Untouched

\* add_txt_record from the answer to the update to its end.
AddUpdateReply ==
    /\ op = "add" /\ pc = "update sent"
    /\ \E reply \in UpdateReplies :
          /\ responses' = Append(responses, Received(reply))
          /\ outcome' = UpdateOutcome("add", domain, validation_name,
                                      _call(reply))
    /\ pc' = "done"
    /\ UNCHANGED <<op, calls, info>>
    /\ UNCHANGED Untouched

\* del_txt_record from the answer to the update to its end.
DelUpdateReply ==
    /\ op = "del" /\ pc = "update sent"
    /\ \E reply \in UpdateReplies :
          /\ responses' = Append(responses, Received(reply))
          /\ outcome' = UpdateOutcome("remove", domain, validation_name,
                                      _call(reply))
    /\ pc' = "done"
    /\ UNCHANGED <<op, calls, info>>
    /\ UNCHANGED Untouched

Next ==
    \/ add_txt_record
    \/ del_txt_record
    \/ AddZoneReply
    \/ DelZoneReply
    \/ AddUpdateReply
    \/ DelUpdateReply

Spec == Init /\ [][Next]_vars

\* The codes of the tasks sent so far.
Codes == [i \in 1..Len(calls) |-> GetItem(calls[i], "code").v[1]]

\* result.status.type of a response, or the exception of looking it up.
StatusOf(r) == Subscript(Subscript(r, "result"), "status")
StatusType(r) == Subscript(StatusOf(r), "type")

\* The records of a zone, a single record counted as a list of one.
ZoneRecords(zone) ==
    IF zone.k = "dict" /\ HasKey(zone, "rr")
    THEN GetItem(NormalizeRr(zone), "rr").v
    ELSE <<>>

RelativeName == PyStr(_strip_domain(domain, validation_name))

\* The zone has a record at the relative name with another value.
HoldsConflicting(zone) ==
    \E i \in 1..Len(ZoneRecords(zone)) :
        LET rr == ZoneRecords(zone)[i]
        IN  /\ Subscript(rr, "name") = RelativeName
            /\ Subscript(rr, "value").k = "str"
            /\ Subscript(rr, "value") # PyStr(validation)

\* The zone has a record at the relative name with the value to add.
HoldsSame(zone) ==
    \E i \in 1..Len(ZoneRecords(zone)) :
        LET rr == ZoneRecords(zone)[i]
        IN  /\ Subscript(rr, "name") = RelativeName
            /\ Subscript(rr, "value") = PyStr(validation)

IsPluginError(o, first) ==
    IsRaise(o) /\ o.v = "PluginError" /\ Len(o.msg) > 0 /\ o.msg[1] = first

IsConflictError(o) ==
    /\ IsRaise(o) /\ o.v = "PluginError" /\ Len(o.msg) > 0
    /\ o.msg[Len(o.msg)] = " already exists with different value"

IsUnexpectedResponse(o) ==
    IsPluginError(o, "Unexpected response received from ")

IsRecordUpdateError(o) ==
    \/ op = "add" /\ IsPluginError(o, "Unable to add TXT record for ")
    \/ op = "del" /\ IsPluginError(o, "Unable to remove TXT record for ")

\* C1: add_txt_record on a zone that already holds the record with the same
\* value reports success and sends no update task.
IdempotentAdd ==
    (/\ op = "add" /\ info # NotRun
     /\ HoldsSame(info) /\ ~HoldsConflicting(info)) =>
        /\ Codes = <<"0205">>
        /\ outcome = Success

NoResult(r) ==
    \/ r = PyNone
    \/ r.k = "str"
    \/ r.k = "dict" /\ (~HasKey(r, "result") \/ GetItem(r, "result") = PyNone)

\* C3: a response that unmarshals to no value, to a bare scalar, or to a Map
\* without a result makes the call fail with the 'unexpected response'
\* error, whatever operation made the call.
NoResultIsUnexpectedResponse ==
    \A i \in 1..Len(responses) :
        NoResult(responses[i]) => IsUnexpectedResponse(outcome)

\* The answer to a call says success.
Ok(r) == StatusType(r) = S("success")

\* C4: the calls of an operation are a prefix of [0205, 0202001]; the update
\* is sent only after the zone query was answered with status type success;
\* a call that was not answered with success, and a conflict, is followed by
\* no further call: the operation has ended with an error and takes no
\* further step.
OneAttemptPerTask ==
    /\ Codes \in { <<>>, <<"0205">>, <<"0205", "0202001">> }
    /\ Len(responses) <= Len(calls)
    /\ Len(calls) = 2 => Len(responses) >= 1 /\ Ok(responses[1])
    /\ \A i \in 1..Len(responses) :
          ~Ok(responses[i]) =>
              /\ Len(calls) = i
              /\ IsRaise(outcome)
              /\ pc = "done"
    /\ (op = "add" /\ info # NotRun /\ HoldsConflicting(info)) =>
          Len(calls) = 1 /\ IsRaise(outcome)
    /\ IsRaise(outcome) => pc = "done"
    /\ pc = "done" =>
          /\ Len(responses) = Len(calls)
          /\ IsRaise(outcome) \/ outcome = Success
          /\ ~ENABLED Next

\* C4 witness: both tasks were sent and the update was rejected.
UpdateRejectedAfterZoneSuccess ==
    /\ Codes = <<"0205", "0202001">>
    /\ Len(responses) = 2
    /\ Ok(responses[1]) /\ ~Ok(responses[2])
    /\ IsRaise(outcome) /\ pc = "done"

\* C9: a reply to the update task whose status type is not success makes the
\* operation fail with the record-update error, whose message contains the
\* status text when the status has one.
RejectedUpdateIsRecordUpdateError ==
    (/\ Len(responses) = 2
     /\ ~IsRaise(StatusType(responses[2]))
     /\ ~Ok(responses[2])) =>
        /\ IsRecordUpdateError(outcome)
        /\ Subscript(StatusOf(responses[2]), "text").k = "str" =>
              Contains(outcome.msg,
                       Subscript(StatusOf(responses[2]), "text").v)

=============================================================================
